---- MODULE Spec2Model ----
(***************************************************************************)
(* Conway's Game Of Life (conway.py): the board dictionary, the neighbour  *)
(* enumeration, the generation-advance function and the tick loop of main. *)
(*                                                                         *)
(* A Python dict is modelled as the sequence of its <<key, value>> items   *)
(* in insertion order; dicts live in a heap of objects addressed by        *)
(* references, so that "the same object" and "an equal object" differ.     *)
(***************************************************************************)
EXTENDS Integers, Sequences, FiniteSets, TLC

\* ------------------------------------------------------------------ bounds
MaxW == 3          \* widest custom board
MaxH == 3          \* tallest custom board
MaxArea == 9       \* most cells of a custom board
MaxGen == 2        \* generations computed before the model stops ticking
MinTerm == 3       \* smallest terminal side (columns or lines)
MaxTerm == 4       \* largest terminal side (columns or lines)
ShapeDim == 5      \* largest side of the boards the lines and blocks are put on
MaxWindow == 6     \* largest side of the curses window print_board draws on
MaxLines == 2      \* most lines of a pattern file
MaxLineLen == 3    \* most characters of a line, its newline not counted

\* --------------------------------------------------------------- constants
DEAD == 0
ALIVE == 1

\* Python's None, the default of main's pattern and custom_size: a value that
\* is no list of points (the empty list included) and no size
None == << <<>> >>

\* ------------------------------------------------------------ Python dicts
\* range(n)
range(n) == 0 .. (n - 1)

\* d.keys() as a set
Keys(d) == { d[i][1] : i \in 1 .. Len(d) }

\* key in d
Has(d, k) == \E i \in 1 .. Len(d) : d[i][1] = k

\* position of key k among the items of d
Idx(d, k) == CHOOSE i \in 1 .. Len(d) : d[i][1] = k

\* d[k]  (only evaluated where k is a key; a KeyError is the caller's branch)
Get(d, k) == d[Idx(d, k)][2]

\* d[k] = v : an existing key keeps its position, a new key is appended
Put(d, k, v) ==
    IF Has(d, k) THEN [d EXCEPT ![Idx(d, k)] = <<k, v>>]
    ELSE Append(d, <<k, v>>)

\* d1 == d2 of two dicts: same keys, same value at each key, any order
DictEq(d1, d2) ==
    /\ Keys(d1) = Keys(d2)
    /\ \A k \in Keys(d1) : Get(d1, k) = Get(d2, k)

\* ------------------------------------------------------------------ board
\* the rectangle [0,w) x [0,h)
Rect(w, h) == range(w) \X range(h)

\* maxx, maxy of new_board: the custom size, or the terminal size less one
BoardSize(size, term) ==
    IF size = None THEN <<term[1] - 1, term[2] - 1>> ELSE <<size[1], size[2]>>

\* new_board returning the empty dict {}: no cell has a state until written
new_board_empty(size, term) == <<>>

\* new_board that takes the terminal size whatever custom_size is
new_board_terminal(size, term) ==
    LET maxx == term[1] - 1
        maxy == term[2] - 1
    IN  IF maxx <= 0 \/ maxy <= 0 THEN <<>>
        ELSE [ i \in 1 .. (maxx * maxy) |->
                 << <<(i - 1) \div maxy, (i - 1) % maxy>>, DEAD >> ]

\* new_board filling the board with ALIVE instead of DEAD
new_board_alive(size, term) ==
    LET maxx == BoardSize(size, term)[1]
        maxy == BoardSize(size, term)[2]
    IN  [ i \in 1 .. (maxx * maxy) |->
            << <<(i - 1) \div maxy, (i - 1) % maxy>>, ALIVE >> ]

\* {(x, y): DEAD for x in range(maxx) for y in range(maxy)}
new_board(size, term) ==
    LET maxx == BoardSize(size, term)[1]
        maxy == BoardSize(size, term)[2]
    IN  IF maxx <= 0 \/ maxy <= 0 THEN <<>>
        ELSE [ i \in 1 .. (maxx * maxy) |->
                 << <<(i - 1) \div maxy, (i - 1) % maxy>>, DEAD >> ]

\* for point in pattern: board[point] = ALIVE   (pattern is a list of points)
RECURSIVE add_to_board(_, _)
add_to_board(d, pattern) ==
    IF pattern = <<>> THEN d
    ELSE add_to_board(Put(d, Head(pattern), ALIVE), Tail(pattern))

\* get_neighbours that passes over the points with a negative coordinate
get_neighbours_clipped(point) ==
    LET x == point[1]
        y == point[2]
    IN  SelectSeq(<< <<x + 1, y>>, <<x + 1, y + 1>>, <<x, y + 1>>, <<x - 1, y + 1>>,
                     <<x - 1, y>>, <<x - 1, y - 1>>, <<x, y - 1>>, <<x + 1, y - 1>> >>,
                  LAMBDA p : p[1] >= 0 /\ p[2] >= 0)

\* the generator get_neighbours, as the sequence of what it yields
get_neighbours(point) ==
    LET x == point[1]
        y == point[2]
    IN  << <<x + 1, y>>, <<x + 1, y + 1>>, <<x, y + 1>>, <<x - 1, y + 1>>,
           <<x - 1, y>>, <<x - 1, y - 1>>, <<x, y - 1>>, <<x + 1, y - 1>> >>

\* the count with a neighbour that is no key of the board taken for ALIVE
alive_neighbours_absent(d, coord) ==
    LET neighbours == get_neighbours(coord)
    IN  Cardinality({ i \in 1 .. Len(neighbours) :
                        Has(d, neighbours[i]) => Get(d, neighbours[i]) = ALIVE })

\* lines 66-73: the neighbours of coord that are keys of board and ALIVE in
\* it; a neighbour that is no key raises KeyError and is passed over
alive_neighbours(d, coord) ==
    LET neighbours == get_neighbours(coord)
    IN  Cardinality({ i \in 1 .. Len(neighbours) :
                        /\ Has(d, neighbours[i])
                        /\ Get(d, neighbours[i]) = ALIVE })

\* the rule with "in [2, 3, 4]" for the healthy cell
apply_rule_crowded(newboard, coord, alive, n) ==
    IF alive # 0
    THEN IF n \in {0, 1} THEN Put(newboard, coord, DEAD)
         ELSE IF n \in {2, 3, 4} THEN Put(newboard, coord, ALIVE)
         ELSE Put(newboard, coord, DEAD)
    ELSE IF n = 3 THEN Put(newboard, coord, ALIVE)
         ELSE newboard

\* the rule with "in [2]" for the healthy cell
apply_rule_two(newboard, coord, alive, n) ==
    IF alive # 0
    THEN IF n \in {0, 1} THEN Put(newboard, coord, DEAD)
         ELSE IF n \in {2} THEN Put(newboard, coord, ALIVE)
         ELSE Put(newboard, coord, DEAD)
    ELSE IF n = 3 THEN Put(newboard, coord, ALIVE)
         ELSE newboard

\* the rule without its else branch: no dead cell comes to life
apply_rule_no_birth(newboard, coord, alive, n) ==
    IF alive # 0
    THEN IF n \in {0, 1} THEN Put(newboard, coord, DEAD)
         ELSE IF n \in {2, 3} THEN Put(newboard, coord, ALIVE)
         ELSE Put(newboard, coord, DEAD)
    ELSE newboard

\* the rule with an else branch that writes DEAD for a dead cell
apply_rule_dead_written(newboard, coord, alive, n) ==
    IF alive # 0
    THEN IF n \in {0, 1} THEN Put(newboard, coord, DEAD)
         ELSE IF n \in {2, 3} THEN Put(newboard, coord, ALIVE)
         ELSE Put(newboard, coord, DEAD)
    ELSE IF n = 3 THEN Put(newboard, coord, ALIVE)
         ELSE Put(newboard, coord, DEAD)

\* lines 74-87: the write, if any, that one item of board causes in newboard
apply_rule(newboard, coord, alive, n) ==
    IF alive # 0
    THEN IF n \in {0, 1} THEN Put(newboard, coord, DEAD)
         ELSE IF n \in {2, 3} THEN Put(newboard, coord, ALIVE)
         ELSE Put(newboard, coord, DEAD)
    ELSE IF n = 3 THEN Put(newboard, coord, ALIVE)
         ELSE newboard

\* ----------------------------------------------------------- pattern files
\* a line is the sequence of its characters; str.strip() takes these off
Whitespace == {" ", "\n"}

\* line.lstrip()
RECURSIVE lstrip(_)
lstrip(line) ==
    IF line # <<>> /\ Head(line) \in Whitespace THEN lstrip(Tail(line))
    ELSE line

\* line.rstrip()
RECURSIVE rstrip(_)
rstrip(line) ==
    IF line # <<>> /\ line[Len(line)] \in Whitespace
    THEN rstrip(SubSeq(line, 1, Len(line) - 1))
    ELSE line

\* line.strip(): whitespace goes at both ends
strip(line) == rstrip(lstrip(line))

\* lines 117-119 for one line: a point for every "@" of the line as read
line_points(line, line_no) ==
    SelectSeq([ i \in 1 .. Len(line) |-> <<i - 1, line_no>> ],
              LAMBDA q : line[q[1] + 1] = "@")

\* lines 116-119: the points of the lines from the i-th on
RECURSIVE file_points(_, _)
file_points(lines, i) ==
    IF i > Len(lines) THEN <<>>
    ELSE line_points(lines[i], i - 1) \o file_points(lines, i + 1)

\* parse_file on the lines f.readlines() gives: what it returns, or that it
\* raises FileNotFoundError (line 123)
parse_file(lines) ==
    IF Cardinality({ Len(strip(lines[i])) : i \in 1 .. Len(lines) }) = 1
    THEN [raised |-> FALSE,
          pattern |-> file_points(lines, 1),
          custom_size |-> <<Len(lines[1]), Len(lines)>>]
    ELSE [raised |-> TRUE, pattern |-> <<>>, custom_size |-> <<>>]

\* ------------------------------------------------------------------- heap
Refs == {1, 2}
NullRef == 0

\* the object a call of new_board creates: never the object behind ref b,
\* which the caller still holds
fresh(b) == CHOOSE r \in Refs : r # b

\* lines 62-87: for coord, alive in board.items(), from the i-th item on;
\* h is the heap, b the board, nb the new board
RECURSIVE items_loop(_, _, _, _)
items_loop(h, b, nb, i) ==
    IF i > Len(h[b]) THEN h
    ELSE LET coord == h[b][i][1]
             alive == h[b][i][2]
             n     == alive_neighbours(h[b], coord)
         IN  items_loop([h EXCEPT ![nb] = apply_rule(h[nb], coord, alive, n)],
                        b, nb, i + 1)

\* next_iteration with "newboard = board" for its first statement: the
\* results are written onto the input board
next_iteration_alias(h, b, size, term) ==
    [heap |-> items_loop(h, b, b, 1), ref |-> b]

\* next_iteration(board, custom_size) with the terminal at size term:
\* the heap after the call and the reference it returns
next_iteration(h, b, size, term) ==
    LET nb == fresh(b)
        h1 == [h EXCEPT ![nb] = new_board(size, term)]
    IN  [heap |-> items_loop(h1, b, nb, 1), ref |-> nb]

\* lines 62-86 for the items i .. k of the input board only
RECURSIVE items_until(_, _, _, _, _)
items_until(h, b, nb, i, k) ==
    IF i > k THEN h
    ELSE LET coord == h[b][i][1]
             alive == h[b][i][2]
             n     == alive_neighbours(h[b], coord)
         IN  items_until([h EXCEPT ![nb] = apply_rule(h[nb], coord, alive, n)],
                         b, nb, i + 1, k)

\* a stopped next_iteration that had been writing onto the input board
next_iteration_stopped_alias(h, b, size, term, k) ==
    items_until(h, b, b, 1, k)

\* next_iteration stopped by a KeyboardInterrupt after k items of the loop
\* of line 62: the heap it leaves. newboard was a local name, so the object
\* it was building is dropped and no other object has been written
next_iteration_stopped(h, b, size, term, k) ==
    LET nb == fresh(b)
        h1 == [h EXCEPT ![nb] = new_board(size, term)]
    IN  [items_until(h1, b, nb, 1, k) EXCEPT ![nb] = h[nb]]

\* ----------------------------------------------------------------- driver
VARIABLES
    heap,         \* reference -> dict
    board,        \* main's local board, a reference
    pattern,      \* main's local pattern, a list of points or None
    custom_size,  \* main's local custom_size, <<w, h>> or None
    pc,           \* the statement of main that runs next
    gen,          \* how many times next_iteration has returned
    file,         \* the lines of the file named on the command line
    screen,       \* the terminal: "shell", "curses" after initscr, "restored"
    exit,         \* "running", "returned", or the exception that left the program
    stdout,       \* the messages printed
    signal,       \* history: the statements a KeyboardInterrupt was delivered at
    events,       \* history: the calls of the loop since next_iteration returned
    shown,        \* history: the board of the latest print_board call
    dims,         \* history: <<maxx, maxy>> of the latest new_board call
    shadow        \* history: the board of the run seeded with only those
                  \* points of pattern that lie in the rectangle

vars == <<heap, board, pattern, custom_size, pc, gen, file, screen, exit,
          stdout, signal, events, shown, dims, shadow>>

\* what only the terminal handling and the prints of the program change
io == <<file, screen, exit, stdout, signal>>

\* the default pattern of main
Glider == << <<0, 2>>, <<1, 0>>, <<1, 2>>, <<2, 1>>, <<2, 2>> >>

\* a set of points as a list, smallest point first
RECURSIVE SetToSeq(_)
SetToSeq(S) ==
    IF S = {} THEN <<>>
    ELSE LET m == CHOOSE p \in S : \A q \in S :
                      p[1] < q[1] \/ (p[1] = q[1] /\ p[2] <= q[2])
         IN  <<m>> \o SetToSeq(S \ {m})

Terms == (MinTerm .. MaxTerm) \X (MinTerm .. MaxTerm)

\* what a new_board(size) call may read from os.get_terminal_size(): any
\* terminal size when size is None; otherwise the terminal is not asked
Asked(size) == IF size = None THEN Terms ELSE {<<0, 0>>}
Sizes == { s \in (1 .. MaxW) \X (1 .. MaxH) : s[1] * s[2] <= MaxArea }

\* the points outside the rectangle that are a neighbour of one of its
\* cells: the only ones a count over the rectangle can meet
Border(w, h) == ((-1 .. w) \X (-1 .. h)) \ Rect(w, h)

\* the patterns a caller passes with a custom size: any points of the
\* rectangle, alone or with one point outside it
Patterns(w, h) ==
    { SetToSeq(in \cup out) :
        in \in SUBSET Rect(w, h),
        out \in {{}} \cup { {o} : o \in Border(w, h) } }

\* the points of a pattern that lie in the rectangle of dimensions d
InRect(pat, d) == SelectSeq(pat, LAMBDA p : p \in Rect(d[1], d[2]))

\* three cells in a row, column or diagonal, anywhere on the w x h board
Lines(w, h) ==
    { SetToSeq({p, <<p[1] + d[1], p[2] + d[2]>>,
                   <<p[1] + d[1] + d[1], p[2] + d[2] + d[2]>>}) :
        <<p, d>> \in { q \in Rect(w, h) \X {<<1, 0>>, <<0, 1>>, <<1, 1>>, <<1, -1>>} :
                        <<q[1][1] + q[2][1] + q[2][1],
                          q[1][2] + q[2][2] + q[2][2]>> \in Rect(w, h) } }

\* the four cells of a 2x2 block, anywhere on the w x h board
Blocks(w, h) ==
    { SetToSeq({<<x, y>>, <<x + 1, y>>, <<x, y + 1>>, <<x + 1, y + 1>>}) :
        <<x, y>> \in range(w - 1) \X range(h - 1) }

\* the program has started: nothing read, printed, drawn or delivered yet
Started ==
    /\ file = <<>>
    /\ screen = "shell"
    /\ exit = "running"
    /\ stdout = <<>>
    /\ signal = <<>>
    /\ events = <<>>
    /\ shown = NullRef

\* the sizes the curses window may have when print_board draws on it
Windows == (MinTerm .. MaxWindow) \X (MinTerm .. MaxWindow)

\* stdscr.addstr(y, x, ch) succeeds: the position is on the window and is not
\* its lower right corner, where the cursor cannot advance
OnWindow(k, win) ==
    /\ 0 <= k[1] /\ k[1] < win[1]
    /\ 0 <= k[2] /\ k[2] < win[2]
    /\ ~ (k[1] = win[1] - 1 /\ k[2] = win[2] - 1)

\* lines 93-94 draw every item of the board without an error
Fits(d, win) == \A k \in Keys(d) : OnWindow(k, win)

\* main(pattern, custom_size) has been called: main() or main(*parse_file(f))
Init ==
    /\ heap = [r \in Refs |-> <<>>]
    /\ board = NullRef
    /\ \/ custom_size = None /\ pattern = None
       \/ \E size \in Sizes :
            /\ custom_size = size
            /\ pattern \in Patterns(size[1], size[2])
    /\ pc = "new_board"
    /\ gen = 0
    /\ Started
    /\ dims = <<0, 0>>
    /\ shadow = <<>>

\* lines 128-132; termsize is what os.get_terminal_size() returns during the
\* call, <<columns, lines>>: the user may have resized the window at any time
NewBoard ==
    /\ pc = "new_board"
    /\ \E termsize \in Asked(custom_size) :
         /\ heap' = [heap EXCEPT ![fresh(NullRef)] =
                                     new_board(custom_size, termsize)]
         /\ dims' = BoardSize(custom_size, termsize)
    /\ board' = fresh(NullRef)
    /\ pattern' = IF pattern = None THEN Glider ELSE pattern
    /\ pc' = "add_to_board"
    /\ UNCHANGED <<custom_size, gen, shadow, io, events, shown>>

\* line 134: the board object is written in place
AddToBoard ==
    /\ pc = "add_to_board"
    /\ heap' = [heap EXCEPT ![board] = add_to_board(heap[board], pattern)]
    /\ pc' = "initscr"
    /\ shadow' = add_to_board(heap[board], InRect(pattern, dims))
    /\ UNCHANGED <<board, pattern, custom_size, gen, dims, io, events, shown>>

\* line 135: curses takes the terminal over
InitScr ==
    /\ pc = "initscr"
    /\ screen' = "curses"
    /\ pc' = "setup_curses"
    /\ UNCHANGED <<heap, board, pattern, custom_size, gen, dims, shadow,
                   file, exit, stdout, signal, events, shown>>

\* line 136
SetupCurses ==
    /\ pc = "setup_curses"
    /\ pc' = "print_board"
    /\ UNCHANGED <<heap, board, pattern, custom_size, gen, dims, shadow,
                   io, events, shown>>

\* a loop that is left once the board has no live cell
PrintBoard_halting ==
    /\ pc = "print_board"
    /\ \E k \in Keys(heap[board]) : Get(heap[board], k) = ALIVE
    /\ { win \in Windows : Fits(heap[board], win) } # {}
    /\ events' = Append(events, "print_board")
    /\ shown' = board
    /\ pc' = "sleep"
    /\ UNCHANGED <<heap, board, pattern, custom_size, gen, dims, shadow, io>>

\* line 140: every item of the board is drawn on the window, whatever size
\* the window has by now
PrintBoard ==
    /\ pc = "print_board"
    /\ { win \in Windows : Fits(heap[board], win) } # {}
    /\ events' = Append(events, "print_board")
    /\ shown' = board
    /\ pc' = "sleep"
    /\ UNCHANGED <<heap, board, pattern, custom_size, gen, dims, shadow, io>>

\* line 141
Sleep ==
    /\ pc = "sleep"
    /\ events' = Append(events, "sleep")
    /\ pc' = "next_iteration"
    /\ UNCHANGED <<heap, board, pattern, custom_size, gen, dims, shadow,
                   io, shown>>

\* a loop that goes from next_iteration straight to the sleep
NextIteration_unrendered ==
    /\ pc = "next_iteration"
    /\ gen < MaxGen
    /\ \E termsize \in Asked(custom_size) :
         /\ LET r == next_iteration(heap, board, custom_size, termsize)
            IN  /\ heap' = r.heap
                /\ board' = r.ref
         /\ LET r == next_iteration([heap EXCEPT ![board] = shadow], board,
                                     custom_size, termsize)
            IN  shadow' = r.heap[r.ref]
         /\ dims' = BoardSize(custom_size, termsize)
    /\ gen' = gen + 1
    /\ events' = <<>>
    /\ pc' = "sleep"
    /\ UNCHANGED <<pattern, custom_size, io, shown>>

\* line 142
NextIteration ==
    /\ pc = "next_iteration"
    /\ gen < MaxGen
    /\ \E termsize \in Asked(custom_size) :
         /\ LET r == next_iteration(heap, board, custom_size, termsize)
            IN  /\ heap' = r.heap
                /\ board' = r.ref
         /\ LET r == next_iteration([heap EXCEPT ![board] = shadow], board,
                                     custom_size, termsize)
            IN  shadow' = r.heap[r.ref]
         /\ dims' = BoardSize(custom_size, termsize)
    /\ gen' = gen + 1
    /\ events' = <<>>
    /\ pc' = "print_board"
    /\ UNCHANGED <<pattern, custom_size, io, shown>>

\* the steps of main when no signal is delivered and no call raises
Next ==
    \/ NewBoard
    \/ AddToBoard
    \/ InitScr
    \/ SetupCurses
    \/ PrintBoard
    \/ Sleep
    \/ NextIteration

Spec == Init /\ [][Next]_vars

\* line 136 raises curses.error (a terminal without default colours or
\* without an invisible cursor): the call is outside the try of line 139
SetupCursesRaises ==
    /\ pc = "setup_curses"
    /\ exit' = "curses.error"
    /\ pc' = "done"
    /\ UNCHANGED <<heap, board, pattern, custom_size, gen, dims, shadow,
                   file, screen, stdout, signal, events, shown>>

\* line 140 raises curses.error: addstr is given a position that is not on
\* the window; lines 146-148 restore the terminal and raise it again
PrintBoardRaises ==
    /\ pc = "print_board"
    /\ { win \in Windows : ~ Fits(heap[board], win) } # {}
    /\ screen' = "restored"
    /\ exit' = "curses.error"
    /\ pc' = "done"
    /\ UNCHANGED <<heap, board, pattern, custom_size, gen, dims, shadow,
                   file, stdout, signal, events, shown>>

\* a KeyboardInterrupt is delivered outside the try of line 139, before the
\* loop or after it: nothing catches it
Interrupt ==
    /\ pc \in {"new_board", "add_to_board", "initscr", "setup_curses",
               "clear_display", "farewell"}
    /\ signal' = Append(signal, pc)
    /\ exit' = "KeyboardInterrupt"
    /\ pc' = "done"
    /\ UNCHANGED <<heap, board, pattern, custom_size, gen, dims, shadow,
                   file, screen, stdout, events, shown>>

\* a loop without the handler of lines 144-145
InterruptLoop_uncaught ==
    /\ pc \in {"print_board", "sleep"}
    /\ signal' = Append(signal, pc)
    /\ exit' = "KeyboardInterrupt"
    /\ pc' = "done"
    /\ UNCHANGED <<heap, board, pattern, custom_size, gen, dims, shadow,
                   file, screen, stdout, events, shown>>

\* a KeyboardInterrupt is delivered during line 140 or 141: lines 144-145
InterruptLoop ==
    /\ pc \in {"print_board", "sleep"}
    /\ signal' = Append(signal, pc)
    /\ pc' = "clear_display"
    /\ UNCHANGED <<heap, board, pattern, custom_size, gen, dims, shadow,
                   file, screen, exit, stdout, events, shown>>

\* a KeyboardInterrupt is delivered during line 142, after k items of the
\* loop of next_iteration: the assignment to board is not reached
InterruptNextIteration ==
    /\ pc = "next_iteration"
    /\ \E termsize \in Asked(custom_size) :
         \E k \in 0 .. Len(heap[board]) :
           heap' = next_iteration_stopped(heap, board, custom_size, termsize, k)
    /\ signal' = Append(signal, pc)
    /\ pc' = "clear_display"
    /\ UNCHANGED <<board, pattern, custom_size, gen, dims, shadow,
                   file, screen, exit, stdout, events, shown>>

\* line 151
ClearDisplay ==
    /\ pc = "clear_display"
    /\ screen' = "restored"
    /\ pc' = "farewell"
    /\ UNCHANGED <<heap, board, pattern, custom_size, gen, dims, shadow,
                   file, exit, stdout, signal, events, shown>>

\* line 152, then main returns
Farewell ==
    /\ pc = "farewell"
    /\ stdout' = Append(stdout, "Thanks for playing!")
    /\ exit' = "returned"
    /\ pc' = "done"
    /\ UNCHANGED <<heap, board, pattern, custom_size, gen, dims, shadow,
                   file, screen, signal, events, shown>>

\* main() or main(pattern, custom_size) has been called: the default glider
\* on a board of the terminal's size, or no cell, a three-cell line or a 2x2
\* block on a board of up to ShapeDim x ShapeDim cells
InitMain ==
    /\ heap = [r \in Refs |-> <<>>]
    /\ board = NullRef
    /\ \/ custom_size = None /\ pattern = None
       \/ \E size \in (1 .. ShapeDim) \X (1 .. ShapeDim) :
            /\ custom_size = size
            /\ pattern \in Lines(size[1], size[2]) \cup Blocks(size[1], size[2])
                             \cup {<<>>}
    /\ pc = "new_board"
    /\ gen = 0
    /\ Started
    /\ dims = <<0, 0>>
    /\ shadow = <<>>

\* the steps of main, signals and errors included
NextMain ==
    \/ NewBoard
    \/ AddToBoard
    \/ InitScr
    \/ SetupCurses
    \/ SetupCursesRaises
    \/ PrintBoard
    \/ PrintBoardRaises
    \/ Sleep
    \/ NextIteration
    \/ Interrupt
    \/ InterruptLoop
    \/ InterruptNextIteration
    \/ ClearDisplay
    \/ Farewell

SpecMain == InitMain /\ [][NextMain]_vars

\* the statement main is at is eventually executed: weak fairness of every
\* step. For the two steps that compute a board, WF_vars(A) is written out
\* as []<>~ENABLED <<A>>_vars \/ []<><<A>>_vars with ENABLED <<A>>_vars
\* replaced by the guard of A that it is equivalent to
Fairness ==
    /\ WF_vars(NewBoard)
    /\ []<>(pc # "add_to_board") \/ []<><<AddToBoard>>_vars
    /\ WF_vars(InitScr)
    /\ WF_vars(SetupCurses)
    /\ WF_vars(PrintBoard)
    /\ WF_vars(Sleep)
    /\ []<>(~ (pc = "next_iteration" /\ gen < MaxGen)) \/ []<><<NextIteration>>_vars

\* main left to run, with no signal and no error
SpecTicking == InitMain /\ [][Next]_vars /\ Fairness

\* the characters of a pattern file, the newline apart
Chars == {"@", "-", " "}

\* the lines without their newline, of up to n characters
Bodies(n) == UNION { [1 .. k -> Chars] : k \in 0 .. n }

\* what readlines() returns for a file of n >= 1 lines: every line ends with
\* its newline, the last one may lack it and is then not empty
RECURSIVE FilesOf(_)
FilesOf(n) ==
    LET full == { b \o <<"\n">> : b \in Bodies(MaxLineLen) }
        last == full \cup (Bodies(MaxLineLen) \ {<<>>})
    IN  IF n = 1 THEN { <<l>> : l \in last }
        ELSE { <<l>> \o f : l \in full, f \in FilesOf(n - 1) }

\* the files on the command line: the empty file and those of up to MaxLines
Files == {<<>>} \cup UNION { FilesOf(n) : n \in 1 .. MaxLines }

\* the program has been started with a file name: line 161 runs next
InitFile ==
    /\ heap = [r \in Refs |-> <<>>]
    /\ board = NullRef
    /\ pattern = None
    /\ custom_size = None
    /\ file \in Files
    /\ screen = "shell"
    /\ exit = "running"
    /\ stdout = <<>>
    /\ signal = <<>>
    /\ events = <<>>
    /\ shown = NullRef
    /\ pc = "parse_file"
    /\ gen = 0
    /\ dims = <<0, 0>>
    /\ shadow = <<>>

\* line 161: parse_file returns and main is called with what it returned
ParseFile ==
    /\ pc = "parse_file"
    /\ ~ parse_file(file).raised
    /\ pattern' = parse_file(file).pattern
    /\ custom_size' = parse_file(file).custom_size
    /\ pc' = "new_board"
    /\ UNCHANGED <<heap, board, gen, dims, shadow, io, events, shown>>

\* lines 162-163: parse_file raises, main is not called, the program ends
ParseFileRaises ==
    /\ pc = "parse_file"
    /\ parse_file(file).raised
    /\ stdout' = Append(stdout, "File was not found or inconsistent.")
    /\ exit' = "returned"
    /\ pc' = "done"
    /\ UNCHANGED <<heap, board, pattern, custom_size, gen, dims, shadow,
                   file, screen, signal, events, shown>>

NextFile ==
    \/ ParseFile
    \/ ParseFileRaises
    \/ Next

SpecFile == InitFile /\ [][NextFile]_vars

\* main(pattern, custom_size) has been called with a three-cell line or a
\* 2x2 block on a board of up to ShapeDim x ShapeDim cells
InitShapes ==
    /\ heap = [r \in Refs |-> <<>>]
    /\ board = NullRef
    /\ \E size \in (1 .. ShapeDim) \X (1 .. ShapeDim) :
         /\ custom_size = size
         /\ pattern \in Lines(size[1], size[2]) \cup Blocks(size[1], size[2])
    /\ pc = "new_board"
    /\ gen = 0
    /\ Started
    /\ dims = <<0, 0>>
    /\ shadow = <<>>

SpecShapes == InitShapes /\ [][Next]_vars

\* the dict with the keys S, smallest first, ALIVE at the keys of live
BoardOf(S, live) ==
    LET ks == SetToSeq(S)
    IN  [ i \in 1 .. Len(ks) |-> <<ks[i], IF ks[i] \in live THEN ALIVE ELSE DEAD>> ]

\* next_iteration(board, custom_size) is about to be called on a board that
\* lacks cells of its rectangle
InitPartial ==
    /\ \E size \in Sizes :
         \E S \in (SUBSET Rect(size[1], size[2])) \ {Rect(size[1], size[2])} :
           \E live \in SUBSET S :
             /\ custom_size = size
             /\ heap = [r \in Refs |-> IF r = 1 THEN BoardOf(S, live) ELSE <<>>]
             /\ shadow = BoardOf(S, live)
             /\ dims = size
    /\ board = 1
    /\ pattern = <<>>
    /\ pc = "next_iteration"
    /\ gen = 0
    /\ Started

SpecPartial == InitPartial /\ [][NextIteration]_vars

\* next_iteration(board, custom_size) is about to be called on a board that
\* holds every cell of its rectangle and one key next to it, outside
InitOutside ==
    /\ \E size \in Sizes :
         \E o \in Border(size[1], size[2]) :
           \E live \in SUBSET (Rect(size[1], size[2]) \cup {o}) :
             /\ custom_size = size
             /\ heap = [r \in Refs |->
                         IF r = 1
                         THEN BoardOf(Rect(size[1], size[2]) \cup {o}, live)
                         ELSE <<>>]
             /\ shadow = BoardOf(Rect(size[1], size[2]), live)
             /\ dims = size
    /\ board = 1
    /\ pattern = <<>>
    /\ pc = "next_iteration"
    /\ gen = 0
    /\ Started

SpecOutside == InitOutside /\ [][NextIteration]_vars

\* ------------------------------------------------------- what is claimed
\* the board main holds, and the board it passed to the latest
\* next_iteration call (the object the call left behind)
Cur == heap[board]
Prev == heap[fresh(board)]

\* main is in its tick loop
Running == pc \in {"print_board", "sleep", "next_iteration"}

\* the keys of d that are ALIVE
AliveSet(d) == { k \in Keys(d) : Get(d, k) = ALIVE }

\* the points of the list pat
PatternSet(pat) == { pat[i] : i \in 1 .. Len(pat) }

\* the eight points at Chebyshev distance 1 of c
Moore(c) ==
    { p \in (c[1] - 1 .. c[1] + 1) \X (c[2] - 1 .. c[2] + 1) : p # c }

\* the live neighbours of c on the w x h board d, nothing off the board counted
LiveCount(d, c, w, h) ==
    Cardinality({ p \in Moore(c) \cap Rect(w, h) : Get(d, p) = ALIVE })

\* the latest call had custom_size = (w, h) and a board over exactly the
\* rectangle
CalledOnRect ==
    /\ gen >= 1
    /\ custom_size # None
    /\ Keys(Prev) = Rect(custom_size[1], custom_size[2])

\* C1: on a board over exactly the rectangle, a cell is ALIVE in the result
\* iff it was ALIVE with 2 or 3 live neighbours or DEAD with exactly 3, the
\* neighbours counted in the input board and off-board ones counting zero.
C1_LifeRule ==
    CalledOnRect =>
        \A c \in Rect(custom_size[1], custom_size[2]) :
            LET n == LiveCount(Prev, c, custom_size[1], custom_size[2])
            IN  /\ Has(Cur, c)
                /\ Get(Cur, c) = ALIVE <=>
                      \/ Get(Prev, c) = ALIVE /\ n \in {2, 3}
                      \/ Get(Prev, c) = DEAD /\ n = 3

\* a call on a 3x3 board in which a cell was born, a cell died of
\* overpopulation, a cell died of underpopulation and a cell survived
C1_Witness ==
    /\ CalledOnRect
    /\ custom_size = <<3, 3>>
    /\ \E c \in Keys(Prev) : Get(Prev, c) = DEAD /\ Get(Cur, c) = ALIVE
    /\ \E c \in Keys(Prev) :
         /\ Get(Prev, c) = ALIVE /\ Get(Cur, c) = DEAD
         /\ LiveCount(Prev, c, 3, 3) >= 4
    /\ \E c \in Keys(Prev) :
         /\ Get(Prev, c) = ALIVE /\ Get(Cur, c) = DEAD
         /\ LiveCount(Prev, c, 3, 3) <= 1
    /\ \E c \in Keys(Prev) : Get(Prev, c) = ALIVE /\ Get(Cur, c) = ALIVE

\* C2: on a board over exactly the rectangle the result has exactly the
\* rectangle for its key set, each key once, and DEAD or ALIVE at every key,
\* the dead cells that the rule does not write included.
C2_Totality ==
    CalledOnRect =>
        /\ Keys(Cur) = Rect(custom_size[1], custom_size[2])
        /\ Len(Cur) = custom_size[1] * custom_size[2]
        /\ \A c \in Keys(Cur) : Get(Cur, c) \in {DEAD, ALIVE}

\* a call that left a dead cell unwritten (its count was not 3) next to a
\* cell that it wrote
C2_Witness ==
    /\ CalledOnRect
    /\ \E c \in Keys(Prev) :
         /\ Get(Prev, c) = DEAD
         /\ LiveCount(Prev, c, custom_size[1], custom_size[2]) # 3
         /\ Has(Cur, c) /\ Get(Cur, c) = DEAD
    /\ AliveSet(Cur) # {}

\* C3: in the tick loop the key set of the board is exactly the rectangle of
\* the board's dimensions, whatever points the pattern held.
C3_KeysAreRect ==
    Running => Keys(Cur) = Rect(dims[1], dims[2])

\* C4: a next_iteration call returns another object than its input and
\* leaves the input's keys and the state at each key as they were.
C4_InputUntouched ==
    [][ pc = "next_iteration" /\ pc' = "print_board" =>
          /\ board' # board
          /\ DictEq(heap'[board], heap[board])
          /\ heap'[board] = heap[board] ]_vars

\* a call has returned a board that differs from the input it was given,
\* which had live cells
C4_Witness ==
    /\ gen >= 1
    /\ AliveSet(Prev) # {}
    /\ ~ DictEq(Cur, Prev)

\* the board as next_iteration would return it for the input of the latest
\* call, had the terminal been of size t at the call
Recomputed(t) ==
    LET r == next_iteration(heap, fresh(board), custom_size, t)
    IN  r.heap[r.ref]

\* C5: a point seeded outside the rectangle is never counted: every cell of
\* the rectangle has, in every generation, the state it has in the run
\* seeded with the pattern less its points outside the rectangle.
C5_OutsideNeverCounted ==
    Running =>
        \A c \in Rect(dims[1], dims[2]) :
            Has(Cur, c) /\ Has(shadow, c) => Get(Cur, c) = Get(shadow, c)

IsBlock(d, x, y) ==
    AliveSet(d) = {<<x, y>>, <<x + 1, y>>, <<x, y + 1>>, <<x + 1, y + 1>>}

\* C7: a board over the rectangle whose only live cells are a 2x2 block,
\* anywhere in the rectangle, is returned unchanged by next_iteration.
C7_BlockIsFixed ==
    CalledOnRect =>
        \A x \in range(custom_size[1] - 1), y \in range(custom_size[2] - 1) :
            IsBlock(Prev, x, y) => DictEq(Cur, Prev)

\* two calls in a row were given a block that touches no edge of the board
C7_Witness ==
    /\ CalledOnRect
    /\ gen = 2
    /\ \E x \in 1 .. custom_size[1] - 3, y \in 1 .. custom_size[2] - 3 :
         IsBlock(Prev, x, y) /\ IsBlock(Cur, x, y)

\* the points of pattern are three cells in the direction d, each at least
\* one cell away from every edge of the custom board
IsLine(d) ==
    /\ custom_size # None
    /\ \E p \in Rect(custom_size[1], custom_size[2]) :
         LET cells == {p, <<p[1] + d[1], p[2] + d[2]>>,
                          <<p[1] + d[1] + d[1], p[2] + d[2] + d[2]>>}
         IN  /\ PatternSet(pattern) = cells
             /\ cells \subseteq (1 .. custom_size[1] - 2) \X (1 .. custom_size[2] - 2)

\* the board is over the rectangle and its live cells are those of pattern
IsSeed(d) ==
    /\ Keys(d) = Rect(custom_size[1], custom_size[2])
    /\ AliveSet(d) = PatternSet(pattern)

\* C8: a three-cell diagonal line away from the edges differs from itself
\* after one call and is itself again after two.
C8_DiagonalOscillates ==
    Running /\ IsLine(<<1, 1>>) =>
        /\ gen = 1 => ~ IsSeed(Cur)
        /\ gen = 2 => IsSeed(Cur)

\* C8 as amended: a three-cell row or column away from the edges differs
\* from itself after one call and is itself again after two; a three-cell
\* diagonal is down to its middle cell after one call and dead after two.
C8_StraightLineOscillates ==
    /\ Running /\ (IsLine(<<1, 0>>) \/ IsLine(<<0, 1>>)) =>
          /\ gen = 1 => ~ IsSeed(Cur)
          /\ gen = 2 => IsSeed(Cur)
    /\ Running /\ (IsLine(<<1, 1>>) \/ IsLine(<<1, -1>>)) =>
          /\ gen = 1 => AliveSet(Cur) = {pattern[2]}
          /\ gen = 2 => AliveSet(Cur) = {}

\* a row away from the edges has been through two calls
C8_Witness ==
    /\ IsLine(<<1, 0>>)
    /\ gen = 2
    /\ IsSeed(Cur)
    /\ ~ IsSeed(Prev)

\* C9: a call on a board with no ALIVE cell returns a board with no ALIVE
\* cell, so that a dead generation is followed by dead generations only.
C9_NoSpontaneousLife ==
    gen >= 1 /\ AliveSet(Prev) = {} => AliveSet(Cur) = {}

\* a generation died out and the call on the dead board has returned
C9_Witness ==
    /\ gen = 2
    /\ PatternSet(pattern) # {}
    /\ Len(Prev) >= 4
    /\ AliveSet(Prev) = {}
    /\ AliveSet(Cur) = {}

\* C10: get_neighbours yields eight points, in the order right, right-down,
\* down, left-down, left, left-up, up, right-up (y growing downwards), never
\* the point itself and never fewer for a point on or off an edge; checked
\* at every key of the board of the latest call.
C10_NeighbourOrder ==
    gen >= 1 =>
        \A c \in Keys(Prev) :
            LET s == get_neighbours(c)
                dx == <<1, 1, 0, -1, -1, -1, 0, 1>>
                dy == <<0, 1, 1, 1, 0, -1, -1, -1>>
            IN  /\ Len(s) = 8
                /\ \A i \in 1 .. 8 : s[i] = <<c[1] + dx[i], c[2] + dy[i]>>
                /\ { s[i] : i \in 1 .. 8 } = Moore(c)
                /\ \A i \in 1 .. 8 : s[i] # c

\* the latest call asked for the neighbours of the corner (0, 0) and of a
\* key outside the rectangle
C10_Witness ==
    /\ gen >= 1
    /\ <<0, 0>> \in Keys(Prev)
    /\ \E c \in Keys(Prev) : c \notin Rect(dims[1], dims[2])

\* ----------------------------------------------- what is claimed of files
\* parse_file has raised and the program has ended without calling main
Rejected ==
    /\ pc = "done"
    /\ stdout = <<"File was not found or inconsistent.">>
    /\ board = NullRef

\* parse_file has run on a file of at least one line
Parsed == pc # "parse_file" /\ file # <<>>

\* the lengths of the lines with their trailing whitespace and newline off
TrimmedLens == { Len(rstrip(file[i])) : i \in 1 .. Len(file) }

\* (column, row) of every "@" of the file
AtSigns ==
    { <<c - 1, r - 1>> : <<c, r>> \in
        { q \in (1 .. MaxLineLen + 1) \X (1 .. Len(file)) :
            q[1] <= Len(file[q[2]]) /\ file[q[2]][q[1]] = "@" } }

\* C11: for a file whose lines all have length w once their trailing
\* whitespace is trimmed, parse_file returns the dimensions (w, number of
\* lines) and the points (column, row) of the "@" characters.
C11_ParsedAsWritten ==
    Parsed /\ Cardinality(TrimmedLens) = 1 =>
        /\ ~ Rejected
        /\ \A w \in TrimmedLens : custom_size = <<w, Len(file)>>
        /\ PatternSet(pattern) = AtSigns

\* C12: for a file two lines of which differ in length once their trailing
\* whitespace is trimmed, parse_file raises, and the program ends with no
\* board built and no generation computed.
C12_UnequalLinesRejected ==
    Parsed /\ Cardinality(TrimmedLens) > 1 =>
        /\ Rejected
        /\ heap = [r \in Refs |-> <<>>]
        /\ gen = 0

\* C20: every point parse_file returns lies in the rectangle of the size it
\* returns, so that seeding it puts no key outside the board.
C20_ParsedPointsInRect ==
    Parsed /\ ~ Rejected =>
        /\ PatternSet(pattern) \subseteq Rect(custom_size[1], custom_size[2])
        /\ Running => Keys(Cur) = Rect(custom_size[1], custom_size[2])

\* ------------------------------------------ what is claimed of partial boards
\* the neighbours of c that are keys of d and ALIVE in it
PresentLive(d, c) ==
    Cardinality({ p \in Moore(c) \cap Keys(d) : Get(d, p) = ALIVE })

\* the latest call had a board whose keys are a proper subset of the rectangle
CalledOnPartial ==
    /\ gen >= 1
    /\ Keys(Prev) \subseteq Rect(dims[1], dims[2])
    /\ Keys(Prev) # Rect(dims[1], dims[2])

\* C13: on a board that lacks cells of the rectangle next_iteration returns a
\* board over the whole rectangle; a cell that is a key of the input follows
\* the rule with only the neighbours that are keys counted, and a cell that
\* is no key of the input is DEAD in the result.
C13_MissingCellsSkipped ==
    CalledOnPartial =>
        /\ Keys(Cur) = Rect(dims[1], dims[2])
        /\ \A c \in Rect(dims[1], dims[2]) :
             Get(Cur, c) = ALIVE <=>
                /\ c \in Keys(Prev)
                /\ \/ Get(Prev, c) = ALIVE /\ PresentLive(Prev, c) \in {2, 3}
                   \/ Get(Prev, c) = DEAD /\ PresentLive(Prev, c) = 3

\* a call on a board where a missing cell had three live neighbours and a
\* live cell next to a missing one survived
C13_Witness ==
    /\ CalledOnPartial
    /\ \E c \in Rect(dims[1], dims[2]) \ Keys(Prev) :
         PresentLive(Prev, c) = 3 /\ Get(Cur, c) = DEAD
    /\ \E c \in Keys(Prev) :
         /\ Get(Prev, c) = ALIVE /\ Get(Cur, c) = ALIVE
         /\ \E p \in Moore(c) \cap Rect(dims[1], dims[2]) : p \notin Keys(Prev)

\* ------------------------------------------- what is claimed of the driver
\* a KeyboardInterrupt is delivered in this step
Delivered == signal' # signal

\* the board next_iteration returns on the current board for terminal size t
NextGen(t) ==
    LET r == next_iteration(heap, board, custom_size, t)
    IN  r.heap[r.ref]

\* C14: every step of the tick loop leaves main with a whole generation: the
\* board it had, or the board next_iteration returns for it; a step in which
\* an interrupt is delivered, in the middle of next_iteration too, leaves
\* the board it had.
C14_NoPartialGeneration ==
    [][Running =>
          /\ \/ gen' = gen /\ board' = board /\ heap'[board] = heap[board]
             \/ /\ gen' = gen + 1
                /\ \E t \in Asked(custom_size) : heap'[board'] = NextGen(t)
          /\ Delivered => gen' = gen /\ heap'[board'] = heap[board]]_vars

\* next_iteration was stopped by an interrupt on a board that the whole call
\* would have changed
C14_Witness ==
    /\ signal = <<"next_iteration">>
    /\ pc = "clear_display"
    /\ gen = 1
    /\ \E t \in Asked(custom_size) : AliveSet(NextGen(t)) # AliveSet(Cur)

\* C15: once curses.initscr() has taken the terminal, main does not return
\* or let an exception out before clear_display has restored it.
C15_TerminalRestored ==
    pc = "done" /\ screen # "shell" => screen = "restored"

\* C16: a KeyboardInterrupt delivered in the tick loop stops the loop with
\* no exception; no generation is computed after it; the farewell is printed
\* only once the terminal is restored; and if no second interrupt follows,
\* main returns with the terminal restored and the farewell printed.
C16_InterruptIsNormalExit ==
    /\ [][Running /\ Delivered =>
             pc' = "clear_display" /\ exit' = "running"]_vars
    /\ [][signal # <<>> =>
             gen' = gen /\ board' = board /\ heap'[board] = heap[board]]_vars
    /\ [](stdout # <<>> => screen = "restored")
    /\ [](pc = "done" /\ Len(signal) = 1 /\ gen + Len(events) > 0 =>
             /\ exit = "returned"
             /\ screen = "restored"
             /\ stdout = <<"Thanks for playing!">>)

\* main has returned after an interrupt in the sleep of the second generation
C16_Witness ==
    /\ pc = "done"
    /\ signal = <<"sleep">>
    /\ gen = 1
    /\ exit = "returned"

\* C17: with no interrupt and no exception, every generation is followed by
\* the next one, from a dead board and from a still life too (up to the
\* MaxGen generations of the model).
C17_AlwaysAdvances ==
    \A g \in 0 .. (MaxGen - 1) : (gen = g) ~> (gen = g + 1)

\* the loop advanced from a board with no live cell
C17_Witness ==
    /\ gen = 2
    /\ pc = "print_board"
    /\ AliveSet(Prev) = {}
    /\ AliveSet(Cur) = {}

\* C18: when next_iteration is called, the board passed to it has been drawn
\* by exactly one print_board call since the previous next_iteration call
\* (since the seeding for the first), followed by one sleep.
C18_RenderedBeforeAdvance ==
    [][gen' = gen + 1 =>
          /\ events = <<"print_board", "sleep">>
          /\ shown = board]_vars

\* the second next_iteration call has returned
C18_Witness ==
    /\ gen = 2
    /\ pc = "print_board"
    /\ events = <<>>
    /\ shown = fresh(board)

\* --------------------------------- what is claimed of keys off the rectangle
\* the keys of d outside the rectangle of the latest call
Outside(d) == Keys(d) \ Rect(dims[1], dims[2])

\* C19: the keys of the board next_iteration returns are the rectangle and
\* those keys of the input outside it that were ALIVE, or DEAD with exactly
\* three live neighbours; no other key appears, so the keys outside the
\* rectangle do not grow.
C19_OutsideKeysCarried ==
    gen >= 1 =>
        /\ Keys(Cur) = Rect(dims[1], dims[2]) \cup
              { k \in Outside(Prev) :
                  Get(Prev, k) # DEAD \/ PresentLive(Prev, k) = 3 }
        /\ Outside(Cur) \subseteq Outside(Prev)

\* a call brought a dead key outside the rectangle to life
C19_Witness ==
    /\ gen >= 1
    /\ \E k \in Outside(Prev) :
         /\ Get(Prev, k) = DEAD
         /\ PresentLive(Prev, k) = 3
         /\ Get(Cur, k) = ALIVE

====
